---- MODULE Spec2Model ----
(***************************************************************************)
(* Model of the quantize/dequantize codec of web-ui-common (src/data.ts):   *)
(* quantizeFloats packs a Float32Array into an 8-byte header (min, max as   *)
(* little-endian float32) plus one uint8 per sample; dequantizeFloats       *)
(* reads such a buffer back into [min, max, Float32Array].                  *)
(*                                                                          *)
(* JavaScript numbers are IEEE-754 doubles and Float32Array elements are    *)
(* IEEE-754 singles.  Both are modelled exactly: a finite value is the      *)
(* dyadic rational sgn * man * 2^exp with man an arbitrary-precision odd    *)
(* natural number, and every arithmetic step of the code is the exact       *)
(* operation followed by round-to-nearest-even to 53 bits (number) or       *)
(* 24 bits (Float32Array store).  The model's inputs are finite and stay    *)
(* far from the overflow and subnormal ranges, and have no negative zero.   *)
(***************************************************************************)
EXTENDS Integers, Sequences, FiniteSets, TLC

(***************************************************************************)
(* Arbitrary-precision naturals: little-endian digit sequences in base      *)
(* Base, without leading zero digits (zero is the empty sequence).  TLC's   *)
(* integers are 32 bits wide, a double's significand is 53.                 *)
(***************************************************************************)
\* 15-bit digits: a product of two digits plus a carry stays below 2^31.
Base == 2 ^ 15

Pow2(n) == 2 ^ n

RECURSIVE BTrim(_)
BTrim(a) ==
  IF a = << >> THEN << >>
  ELSE IF a[Len(a)] = 0 THEN BTrim(SubSeq(a, 1, Len(a) - 1))
  ELSE a

Dig(a, i) == IF i <= Len(a) THEN a[i] ELSE 0

BFromInt(n) ==
  BTrim(<< n % Base, (n \div Base) % Base, n \div (Base * Base) >>)

\* Only for values below 2^30.
BToInt(a) == Dig(a, 1) + Base * Dig(a, 2)

RECURSIVE BAddC(_, _, _, _)
BAddC(a, b, i, c) ==
  IF i > Len(a) /\ i > Len(b)
  THEN IF c = 0 THEN << >> ELSE << c >>
  ELSE LET s == Dig(a, i) + Dig(b, i) + c
       IN  << s % Base >> \o BAddC(a, b, i + 1, s \div Base)

BAdd(a, b) == BAddC(a, b, 1, 0)

RECURSIVE BSubC(_, _, _, _)
BSubC(a, b, i, c) ==
  IF i > Len(a) THEN << >>
  ELSE LET s == Dig(a, i) - Dig(b, i) - c
       IN  IF s < 0
           THEN << s + Base >> \o BSubC(a, b, i + 1, 1)
           ELSE << s >> \o BSubC(a, b, i + 1, 0)

\* a - b, for a >= b.
BSub(a, b) == BTrim(BSubC(a, b, 1, 0))

RECURSIVE BCmpAt(_, _, _)
BCmpAt(a, b, i) ==
  IF i = 0 THEN 0
  ELSE IF a[i] < b[i] THEN -1
  ELSE IF a[i] > b[i] THEN 1
  ELSE BCmpAt(a, b, i - 1)

\* -1, 0 or 1 as a < b, a = b, a > b.
BCmp(a, b) ==
  IF Len(a) < Len(b) THEN -1
  ELSE IF Len(a) > Len(b) THEN 1
  ELSE BCmpAt(a, b, Len(a))

RECURSIVE BMulSmallC(_, _, _, _)
BMulSmallC(a, k, i, c) ==
  IF i > Len(a)
  THEN IF c = 0 THEN << >> ELSE << c >>
  ELSE LET s == a[i] * k + c
       IN  << s % Base >> \o BMulSmallC(a, k, i + 1, s \div Base)

\* a * k, for 0 <= k <= Base.
BMulSmall(a, k) == IF k = 0 THEN << >> ELSE BMulSmallC(a, k, 1, 0)

BShiftDigits(a, n) ==
  IF a = << >> THEN << >> ELSE [i \in 1..n |-> 0] \o a

RECURSIVE BMulAt(_, _, _)
BMulAt(a, b, i) ==
  IF i > Len(b) THEN << >>
  ELSE BAdd(BShiftDigits(BMulSmall(a, b[i]), i - 1), BMulAt(a, b, i + 1))

BMul(a, b) == BMulAt(a, b, 1)

RECURSIVE BDivSmallAt(_, _, _, _)
BDivSmallAt(a, k, i, r) ==
  IF i = 0 THEN [q |-> << >>, r |-> r]
  ELSE LET cur  == r * Base + a[i]
           rest == BDivSmallAt(a, k, i - 1, cur % k)
       IN  [q |-> rest.q \o << cur \div k >>, r |-> rest.r]

\* Quotient and remainder of a by k, for 1 <= k <= Base.
BDivSmall(a, k) ==
  LET d == BDivSmallAt(a, k, Len(a), 0)
  IN  [q |-> BTrim(d.q), r |-> d.r]

\* a * 2^n.
BShl(a, n) ==
  BShiftDigits(BMulSmall(a, Pow2(n % 15)), n \div 15)

\* floor(a / 2^n).
BShr(a, n) ==
  IF n \div 15 >= Len(a) THEN << >>
  ELSE BDivSmall(SubSeq(a, n \div 15 + 1, Len(a)), Pow2(n % 15)).q

RECURSIVE IntBitLen(_)
IntBitLen(n) == IF n = 0 THEN 0 ELSE 1 + IntBitLen(n \div 2)

BBitLen(a) ==
  IF a = << >> THEN 0
  ELSE 15 * (Len(a) - 1) + IntBitLen(a[Len(a)])

RECURSIVE IntLowZeros(_)
IntLowZeros(n) == IF n % 2 = 1 THEN 0 ELSE 1 + IntLowZeros(n \div 2)

RECURSIVE BLowZerosAt(_, _)
BLowZerosAt(a, i) ==
  IF a[i] = 0 THEN 15 + BLowZerosAt(a, i + 1)
  ELSE IntLowZeros(a[i])

\* The number of trailing zero bits of a > 0.
BLowZeros(a) == BLowZerosAt(a, 1)

\* The largest k in lo..hi with k * b <= r (one quotient digit), by bisection.
RECURSIVE BQuotDigit(_, _, _, _)
BQuotDigit(r, b, lo, hi) ==
  IF lo = hi THEN lo
  ELSE LET mid == (lo + hi + 1) \div 2
       IN  IF BCmp(BMulSmall(b, mid), r) <= 0
           THEN BQuotDigit(r, b, mid, hi)
           ELSE BQuotDigit(r, b, lo, mid - 1)

\* Long division, from digit i of a downwards, r the remainder so far.
RECURSIVE BDivLongAt(_, _, _, _)
BDivLongAt(a, b, i, r) ==
  IF i = 0 THEN [q |-> << >>, r |-> r]
  ELSE LET cur  == BTrim(<< a[i] >> \o r)
           d    == BQuotDigit(cur, b, 0, Base - 1)
           rest == BDivLongAt(a, b, i - 1, BSub(cur, BMulSmall(b, d)))
       IN  [q |-> rest.q \o << d >>, r |-> rest.r]

\* Quotient and remainder of a by b > 0, both as digit sequences.
BDivMod(a, b) ==
  IF Len(b) = 1
  THEN LET d == BDivSmall(a, b[1]) IN [q |-> d.q, r |-> BFromInt(d.r)]
  ELSE LET d == BDivLongAt(a, b, Len(a), << >>)
       IN  [q |-> BTrim(d.q), r |-> d.r]

(***************************************************************************)
(* Finite numbers as exact dyadic rationals sgn * man * 2^exp, man odd      *)
(* (canonical, so equal numbers are equal records).                         *)
(***************************************************************************)
Zero == [sgn |-> 0, man |-> << >>, exp |-> 0]

Dy(s, m, e) ==
  IF m = << >> \/ s = 0 THEN Zero
  ELSE LET z == BLowZeros(m)
       IN  [sgn |-> s, man |-> BShr(m, z), exp |-> e + z]

\* The number n * 2^e, for an integer |n| < 2^30.
Num(n, e) ==
  IF n = 0 THEN Zero
  ELSE IF n < 0 THEN Dy(-1, BFromInt(-n), e)
  ELSE Dy(1, BFromInt(n), e)

DyNeg(x) == [x EXCEPT !.sgn = -x.sgn]

DyAbs(x) == [x EXCEPT !.sgn = IF x.sgn = 0 THEN 0 ELSE 1]

DyAdd(x, y) ==
  IF x.sgn = 0 THEN y
  ELSE IF y.sgn = 0 THEN x
  ELSE LET e == IF x.exp < y.exp THEN x.exp ELSE y.exp
           a == BShl(x.man, x.exp - e)
           b == BShl(y.man, y.exp - e)
           c == BCmp(a, b)
       IN  IF x.sgn = y.sgn THEN Dy(x.sgn, BAdd(a, b), e)
           ELSE IF c = 0 THEN Zero
           ELSE IF c > 0 THEN Dy(x.sgn, BSub(a, b), e)
           ELSE Dy(y.sgn, BSub(b, a), e)

DySub(x, y) == DyAdd(x, DyNeg(y))

DyMul(x, y) ==
  IF x.sgn = 0 \/ y.sgn = 0 THEN Zero
  ELSE Dy(x.sgn * y.sgn, BMul(x.man, y.man), x.exp + y.exp)

\* -1, 0 or 1 as x < y, x = y, x > y.
DyCmp(x, y) ==
  IF x.sgn # y.sgn THEN (IF x.sgn < y.sgn THEN -1 ELSE 1)
  ELSE DySub(x, y).sgn

DyLt(x, y) == DyCmp(x, y) < 0
DyLe(x, y) == DyCmp(x, y) <= 0

(***************************************************************************)
(* IEEE-754 rounding: round-to-nearest, ties-to-even, to p significant      *)
(* bits.                                                                    *)
(***************************************************************************)
RoundTo(x, p) ==
  IF x.sgn = 0 \/ BBitLen(x.man) <= p THEN x
  ELSE LET sh  == BBitLen(x.man) - p
           q   == BShr(x.man, sh)
           rem == BSub(x.man, BShl(q, sh))
           c   == BCmp(BMulSmall(rem, 2), BShl(<< 1 >>, sh))
           up  == c > 0 \/ (c = 0 /\ q[1] % 2 = 1)
       IN  Dy(x.sgn, IF up THEN BAdd(q, << 1 >>) ELSE q, x.exp + sh)

\* x / y rounded to p bits, y # 0: the quotient of the significands is taken to
\* p + 2 bits or more and a sticky bit records a non-zero remainder.
DivRound(x, y, p) ==
  IF x.sgn = 0 THEN Zero
  ELSE LET need == p + 2 + BBitLen(y.man) - BBitLen(x.man)
           k    == IF need > 0 THEN need ELSE 0
           d    == BDivMod(BShl(x.man, k), y.man)
           m    == BAdd(BMulSmall(d.q, 2), IF d.r = << >> THEN << >> ELSE << 1 >>)
       IN  RoundTo(Dy(x.sgn * y.sgn, m, x.exp - y.exp - k - 1), p)

\* Significand widths of a JavaScript number (double) and of a Float32Array
\* element (single).
F64Prec == 53
F32Prec == 24

\* The arithmetic operators of JavaScript numbers.
NumAdd(x, y) == RoundTo(DyAdd(x, y), F64Prec)
NumSub(x, y) == RoundTo(DySub(x, y), F64Prec)
NumMul(x, y) == RoundTo(DyMul(x, y), F64Prec)
NumDiv(x, y) == DivRound(x, y, F64Prec)

\* A store into a Float32Array element, or DataView.setFloat32: the number
\* rounded to single precision.
Fround(x) == RoundTo(x, F32Prec)

\* floor(x) as an integer, for |x| < 2^30.
DyFloor(x) ==
  IF x.sgn = 0 THEN 0
  ELSE IF x.exp >= 0 THEN x.sgn * BToInt(BShl(x.man, x.exp))
  ELSE IF x.sgn > 0 THEN BToInt(BShr(x.man, -x.exp))
  ELSE -(BToInt(BShr(x.man, -x.exp)) + 1)

\* Mutant of MathRound: Math.floor in its place (truncation).
MathRoundAsFloor(x) == DyFloor(x)

\* Math.round: the nearest integer, a tie going towards +Infinity.
MathRound(x) == DyFloor(DyAdd(x, Num(1, -1)))

\* The conversion of a store into a Uint8Array element: modulo 2^8.
ToUint8(n) == n % 256

(***************************************************************************)
(* DataView.setFloat32(.., littleEndian = true) and getFloat32: the IEEE    *)
(* single-precision bit pattern, least significant byte first.              *)
(***************************************************************************)
\* The non-finite numbers; their arithmetic is not modelled, only their order.
PosInf == [sgn |-> 1, man |-> << >>, exp |-> 1]
NegInf == [sgn |-> -1, man |-> << >>, exp |-> 1]
NaN == [sgn |-> 0, man |-> << >>, exp |-> 1]

\* The < operator of JavaScript numbers.
JsLt(x, y) ==
  IF x = NaN \/ y = NaN THEN FALSE
  ELSE IF x = PosInf \/ y = NegInf THEN FALSE
  ELSE IF x = NegInf \/ y = PosInf THEN TRUE
  ELSE DyLt(x, y)

Float32Bytes(v) ==
  IF v = Zero THEN << 0, 0, 0, 0 >>
  ELSE IF v = PosInf THEN << 0, 0, 128, 127 >>
  ELSE IF v = NegInf THEN << 0, 0, 128, 255 >>
  ELSE IF v = NaN THEN << 0, 0, 192, 127 >>
  ELSE LET len    == BBitLen(v.man)
           lead   == v.exp + len - 1
           \* below 2^-126 the value is subnormal: no hidden bit
           biased == IF lead < -126 THEN 0 ELSE lead + 127
           frac   == IF lead < -126
                     THEN BToInt(v.man) * Pow2(v.exp + 149)
                     ELSE BToInt(v.man) * Pow2(24 - len) - Pow2(23)
           s      == IF v.sgn < 0 THEN 1 ELSE 0
       IN  << frac % 256,
              (frac \div 256) % 256,
              (frac \div 65536) + 128 * (biased % 2),
              (biased \div 2) + 128 * s >>

SetFloat32(x) == Float32Bytes(Fround(x))

GetFloat32(b) ==
  LET s      == IF b[4] >= 128 THEN -1 ELSE 1
      biased == (b[4] % 128) * 2 + (b[3] \div 128)
      frac   == (b[3] % 128) * 65536 + b[2] * 256 + b[1]
  IN  IF biased = 255
      THEN (IF frac # 0 THEN NaN ELSE IF s < 0 THEN NegInf ELSE PosInf)
      ELSE IF biased = 0 THEN Num(s * frac, -149)
      ELSE Num(s * (frac + Pow2(23)), biased - 127 - 23)

(***************************************************************************)
(* quantizeFloats (src/data.ts).                                            *)
(***************************************************************************)
EmptyArrayError == "Cannot compress empty array"

\* Mutant of IsEmpty: the check is lost.
IsEmptyNever(data) == FALSE

\* data.length === 0
IsEmpty(data) == Len(data) = 0

\* The min/max scan, from position i on.
RECURSIVE FindMinMax(_, _, _, _)
FindMinMax(data, i, minVal, maxVal) ==
  IF i > Len(data) THEN [minVal |-> minVal, maxVal |-> maxVal]
  ELSE FindMinMax(data, i + 1,
                  IF JsLt(data[i], minVal) THEN data[i] ELSE minVal,
                  IF JsLt(maxVal, data[i]) THEN data[i] ELSE maxVal)

\* (data[i] - minVal) / extent
Normalized(val, minVal, extent) == NumDiv(NumSub(val, minVal), extent)

\* The levels of the quantization: quantized values run from 0 to Levels.
Levels == 255

\* Mutant of Quantized: 256 levels above zero, so that the maximum wraps.
QuantizedTo256(val, minVal, extent) ==
  MathRound(NumMul(Normalized(val, minVal, extent), Num(256, 0)))

\* Math.round(normalized * 255)
Quantized(val, minVal, extent) ==
  MathRound(NumMul(Normalized(val, minVal, extent), Num(Levels, 0)))

\* The payload bytes written through quantizedView.
QuantizedView(data, minVal, extent) ==
  IF extent = Zero
  THEN [i \in 1..Len(data) |-> 0]
  ELSE [i \in 1..Len(data) |-> ToUint8(Quantized(data[i], minVal, extent))]

\* Mutant of HeaderView: the two fields in the wrong order.
HeaderViewMaxFirst(minVal, maxVal) == SetFloat32(maxVal) \o SetFloat32(minVal)

\* Mutant of HeaderView: the two fields written at the same offset.
HeaderViewOverlap(minVal, maxVal) == SetFloat32(maxVal)

\* The header written through headerView: min at offset 0, max at offset 4.
HeaderView(minVal, maxVal) == SetFloat32(minVal) \o SetFloat32(maxVal)

\* The buffer quantizeFloats returns for a non-empty array.
QuantizeFloats(data) ==
  LET mm     == FindMinMax(data, 1, PosInf, NegInf)
      extent == NumSub(mm.maxVal, mm.minVal)
  IN  HeaderView(mm.minVal, mm.maxVal) \o QuantizedView(data, mm.minVal, extent)

(***************************************************************************)
(* dequantizeFloats (src/data.ts).                                          *)
(***************************************************************************)
HeaderBytes == 8

\* Mutant of Convert: the byte is scaled by 1/256, so that 255 falls short of
\* the maximum and every cycle shrinks the range.
ConvertBy256(val, minVal, extent) ==
  IF extent = Zero THEN minVal
  ELSE NumAdd(minVal, NumMul(NumDiv(Num(val, 0), Num(256, 0)), extent))

\* Mutant of Convert: the offset minVal is left out.
ConvertNoOffset(val, minVal, extent) ==
  NumMul(NumDiv(Num(val, 0), Num(255, 0)), extent)

Convert(val, minVal, extent) ==
  IF extent = Zero THEN minVal
  ELSE NumAdd(minVal, NumMul(NumDiv(Num(val, 0), Num(255, 0)), extent))

\* The payload view: the bytes from offset 8 on.
GridUint8(buf) == SubSeq(buf, HeaderBytes + 1, Len(buf))

\* [minVal, maxVal, gridData] for a buffer of 8 bytes or more.
DequantizeFloats(buf) ==
  LET minVal == GetFloat32(SubSeq(buf, 1, 4))
      maxVal == GetFloat32(SubSeq(buf, 5, 8))
      extent == NumSub(maxVal, minVal)
      grid   == GridUint8(buf)
  IN  [minVal   |-> minVal,
       maxVal   |-> maxVal,
       gridData |-> [i \in 1..Len(grid) |-> Fround(Convert(grid[i], minVal, extent))]]

(***************************************************************************)
(* The state machine: a caller holding either a Float32Array (it calls      *)
(* quantizeFloats, then dequantizeFloats on the returned buffer, and may    *)
(* feed the decoded samples to a further cycle) or a buffer it built by     *)
(* hand (it calls dequantizeFloats).                                        *)
(***************************************************************************)
VARIABLES
  data,       \* the Float32Array given to quantizeFloats
  orig,       \* the array the caller started from (history)
  buf,        \* the bytes of the ArrayBuffer at hand
  bufFrom,    \* "none", "quantize" (returned by quantizeFloats) or "manual"
  result,     \* [minVal, maxVal, gridData] returned by dequantizeFloats
  err,        \* "none" or the error the last call threw
  pc,         \* "samples", "buffer", "decoded" or "failed"
  cycle,      \* the number of the quantize/dequantize cycle under way
  allocated,  \* ArrayBuffers allocated by quantizeFloats so far
  reads       \* buffer offsets dequantizeFloats has read

\* The caller's memory, for the calls seen from outside: which blocks a call
\* reads, writes and returns.
VARIABLES
  heap,       \* the blocks of memory in use: heap[id] = [type, bytes]
  returned,   \* the calls that have returned (history), in order
  written     \* the blocks the caller has written to after a call read them

\* drawFunction1D (canvas helpers): one call, followed sample by sample.
VARIABLES
  sampleCount,  \* options.sampleCount
  idx,          \* the loop index i: the number of samples handled so far
  drawing,      \* the local flag: a path segment is open
  ctx,          \* what has been done to the canvas context so far, in order
  outcomes,     \* what each sample handled so far turned out to be (history)
  drawPc        \* "idle" (not called yet), "loop" or "returned"

codecVars == << data, orig, buf, bufFrom, result, err, pc, cycle, allocated, reads >>
memVars == << heap, returned, written >>
drawVars == << sampleCount, idx, drawing, ctx, outcomes, drawPc >>
vars == << codecVars, memVars, drawVars >>

\* Bounds of the model.
MaxLen == 3
MaxPayload == 2
MaxCycles == 2

\* Samples: a tie of the rounding (0, 1/2, 1), negative values, a value far
\* below the others (2^-60), an extent that is no power of two.
SampleValues ==
  { Num(-1, 0), Zero, Num(1, -60), Num(1, -1), Num(1, 0), Num(3, 0) }

SampleArrays == UNION { [1..n -> SampleValues] : n \in 0..MaxLen }

\* Hand-built buffers: a header written with setFloat32 and payload bytes,
\* or fewer than 8 bytes.
ManualHeaderValues == { Num(-1, 0), Zero, Num(1, -60), Num(5, 1) }
ManualPayloadBytes == { 0, 127, 255 }

ManualBuffers ==
  { SetFloat32(lo) \o SetFloat32(hi) \o payload :
      lo \in ManualHeaderValues, hi \in ManualHeaderValues,
      payload \in UNION { [1..n -> ManualPayloadBytes] : n \in 0..MaxPayload } }
  \cup { [i \in 1..n |-> 0] : n \in 0..(HeaderBytes - 1) }

NoResult == [minVal |-> Zero, maxVal |-> Zero, gridData |-> << >>]

\* drawFunction1D is not called.
DrawIdle ==
  /\ sampleCount = 0
  /\ idx = 0
  /\ drawing = FALSE
  /\ ctx = << >>
  /\ outcomes = << >>
  /\ drawPc = "idle"

\* No block of memory is tracked (the codec is followed by value).
MemIdle ==
  /\ heap = << >>
  /\ returned = << >>
  /\ written = {}

Init ==
  /\ \/ /\ data \in SampleArrays
        /\ buf = << >>
        /\ bufFrom = "none"
        /\ pc = "samples"
     \/ /\ data = << >>
        /\ buf \in ManualBuffers
        /\ bufFrom = "manual"
        /\ pc = "buffer"
  /\ orig = data
  /\ result = NoResult
  /\ err = "none"
  /\ cycle = 1
  /\ allocated = 0
  /\ reads = {}
  /\ MemIdle
  /\ DrawIdle

\* quantizeFloats(data)
Quantize ==
  /\ pc = "samples"
  /\ IF IsEmpty(data)
     THEN /\ err' = EmptyArrayError
          /\ pc' = "failed"
          /\ UNCHANGED << buf, bufFrom, allocated >>
     ELSE /\ buf' = QuantizeFloats(data)
          /\ bufFrom' = "quantize"
          /\ allocated' = allocated + 1
          /\ pc' = "buffer"
          /\ err' = "none"
  /\ UNCHANGED << data, orig, result, cycle, reads >>
  /\ UNCHANGED << memVars, drawVars >>

\* Mutant of Dequantize: no length check; bytes past the end of the buffer
\* read as 0.
DequantizeUnchecked ==
  /\ pc = "buffer"
  /\ result' = DequantizeFloats(buf \o [i \in 1..(HeaderBytes - Len(buf)) |-> 0])
  /\ reads' = 0..(HeaderBytes - 1)
                \cup { HeaderBytes + i : i \in 0..(Len(buf) - HeaderBytes - 1) }
  /\ pc' = "decoded"
  /\ err' = "none"
  /\ UNCHANGED << data, orig, buf, bufFrom, cycle, allocated >>
  /\ UNCHANGED << memVars, drawVars >>

\* dequantizeFloats(buf); new DataView(buf, 0, 8) throws a RangeError when the
\* buffer has fewer than 8 bytes.
Dequantize ==
  /\ pc = "buffer"
  /\ IF Len(buf) < HeaderBytes
     THEN /\ err' = "RangeError"
          /\ pc' = "failed"
          /\ UNCHANGED << result, reads >>
     ELSE /\ result' = DequantizeFloats(buf)
          /\ reads' = 0..(HeaderBytes - 1)
                        \cup { HeaderBytes + i : i \in 0..(Len(GridUint8(buf)) - 1) }
          /\ pc' = "decoded"
          /\ err' = "none"
  /\ UNCHANGED << data, orig, buf, bufFrom, cycle, allocated >>
  /\ UNCHANGED << memVars, drawVars >>

\* The decoded samples go through a further cycle.
Recycle ==
  /\ pc = "decoded"
  /\ bufFrom = "quantize"
  /\ cycle < MaxCycles
  /\ data' = result.gridData
  /\ cycle' = cycle + 1
  /\ pc' = "samples"
  /\ UNCHANGED << orig, buf, bufFrom, result, err, allocated, reads >>
  /\ UNCHANGED << memVars, drawVars >>

Next == Quantize \/ Dequantize \/ Recycle

Spec == Init /\ [][Next]_vars

(***************************************************************************)
(* The calls seen from the caller's memory.  Every ArrayBuffer is a block   *)
(* of bytes with an identity; a Float32Array is a typed view of all of its  *)
(* block.  The caller holds some Float32Arrays, passes any array to         *)
(* quantizeFloats and any returned buffer to dequantizeFloats, in any       *)
(* order, and writes into blocks it has passed to a call.  A call runs to   *)
(* completion before the next one starts.                                   *)
(***************************************************************************)
\* Bounds of the memory model.
MaxCalls == 3

\* The blocks of the two arrays the caller holds at the start.
InputBlocks == 1..2

\* The bytes of a Float32Array with the elements x.
Float32ArrayBytes(x) ==
  [k \in 1..(4 * Len(x)) |-> Float32Bytes(x[((k - 1) \div 4) + 1])[((k - 1) % 4) + 1]]

\* The elements read through a Float32Array view of the bytes b.
Float32ArrayOf(b) ==
  [i \in 1..(Len(b) \div 4) |-> GetFloat32(SubSeq(b, 4 * i - 3, 4 * i))]

\* The arrays the caller holds at the start.
InputArrays ==
  { << Num(-1, 0), Num(3, 0) >>,
    << Zero, Num(1, -1), Num(1, 0) >> }

\* What the caller stores into an array element or a payload byte.
WriteValues == { Num(5, 1) }
WriteBytes == { 127 }

\* Mutant of Allocate: the calls share one scratch block for their results.
AllocateShared(h) ==
  IF Len(h) > Cardinality(InputBlocks) THEN Cardinality(InputBlocks) + 1 ELSE Len(h) + 1

\* new ArrayBuffer(..), new Float32Array(..): a block that is not in use.
Allocate(h) == Len(h) + 1

\* The memory after the block id has been filled.
Store(h, id, block) ==
  IF id > Len(h) THEN Append(h, block) ELSE [h EXCEPT ![id] = block]

\* What a call returns for an input with the bytes b: the bytes of the buffer
\* (quantizeFloats) or of gridData (dequantizeFloats).
ResultBytes(fn, b) ==
  IF fn = "quantizeFloats"
  THEN QuantizeFloats(Float32ArrayOf(b))
  ELSE Float32ArrayBytes(DequantizeFloats(b).gridData)

\* The codec followed by value is at rest.
CodecIdle ==
  /\ data = << >>
  /\ orig = << >>
  /\ buf = << >>
  /\ bufFrom = "none"
  /\ result = NoResult
  /\ err = "none"
  /\ pc = "idle"
  /\ cycle = 1
  /\ allocated = 0
  /\ reads = {}

InitMem ==
  /\ CodecIdle
  /\ heap \in [InputBlocks ->
                 { [type |-> "Float32Array", bytes |-> Float32ArrayBytes(x)] :
                     x \in InputArrays }]
  /\ returned = << >>
  /\ written = {}
  /\ DrawIdle

\* The record of a call that has returned: the blocks it was given and gave
\* back, the input's bytes before and after the call, and the number of
\* blocks in use before it.
Returned(fn, input, output, h, hAfter) ==
  [fn |-> fn, input |-> input, output |-> output,
   inputAt |-> h[input].bytes, inputAfter |-> hAfter[input].bytes,
   inUse |-> Len(h)]

\* buffer = quantizeFloats(data), data a non-empty array of the caller.
CallQuantizeFloats ==
  /\ Len(returned) < MaxCalls
  /\ \E input \in DOMAIN heap :
       /\ heap[input].type = "Float32Array"
       /\ LET buffer == Allocate(heap)
          IN  /\ heap' = Store(heap, buffer,
                               [type  |-> "ArrayBuffer",
                                bytes |-> QuantizeFloats(Float32ArrayOf(heap[input].bytes))])
              /\ returned' = Append(returned,
                                    Returned("quantizeFloats", input, buffer, heap, heap'))
  /\ UNCHANGED << written, codecVars, drawVars >>

\* gridData = dequantizeFloats(buf).gridData, buf a buffer quantizeFloats
\* returned.
CallDequantizeFloats ==
  /\ Len(returned) < MaxCalls
  /\ \E input \in DOMAIN heap :
       /\ heap[input].type = "ArrayBuffer"
       /\ LET gridData == Allocate(heap)
          IN  /\ heap' = Store(heap, gridData,
                               [type  |-> "Float32Array",
                                bytes |-> Float32ArrayBytes(
                                            DequantizeFloats(heap[input].bytes).gridData)])
              /\ returned' = Append(returned,
                                    Returned("dequantizeFloats", input, gridData, heap, heap'))
  /\ UNCHANGED << written, codecVars, drawVars >>

\* The caller stores into a block it has passed to a call before: an element
\* of an array, or a payload byte of a buffer.
CallerWrite ==
  /\ \E id \in { returned[k].input : k \in DOMAIN returned } :
       /\ id \notin written
       /\ IF heap[id].type = "Float32Array"
          THEN \E i \in 1..(Len(heap[id].bytes) \div 4), v \in WriteValues :
                 heap' = [heap EXCEPT ![id].bytes =
                            [k \in DOMAIN @ |->
                               IF (k - 1) \div 4 = i - 1
                               THEN Float32Bytes(v)[((k - 1) % 4) + 1] ELSE @[k]]]
          ELSE \E p \in (HeaderBytes + 1)..Len(heap[id].bytes), b \in WriteBytes :
                 heap' = [heap EXCEPT ![id].bytes[p] = b]
       /\ written' = written \cup { id }
  /\ UNCHANGED << returned, codecVars, drawVars >>

NextMem == CallQuantizeFloats \/ CallDequantizeFloats \/ CallerWrite

SpecMem == InitMem /\ [][NextMem]_vars

(***************************************************************************)
(* drawFunction1D(ctx, xScale, yScale, fn, options): the operations on the  *)
(* canvas context, one loop iteration at a time.  The function values and   *)
(* the scaled coordinates are followed only as far as Number.isFinite tells *)
(* them apart.                                                              *)
(***************************************************************************)
\* Bound of the drawing model: the largest options.sampleCount.
MaxSamples == 5

\* What fn, xScale and yScale can return, as far as Number.isFinite sees it.
NumberKinds == { "finite", "NaN", "Infinity", "-Infinity" }

\* Number.isFinite
NumberIsFinite(v) == v = "finite"

\* An operation on the context, issued while the loop index was at.
Ctx(op, at) == [op |-> op, at |-> at]

\* Mutant of FinalizeSegment: ctx.stroke() whether or not a segment is open.
FinalizeSegmentAlways(c, d, at) ==
  [ctx |-> Append(c, Ctx("stroke", at)), drawing |-> FALSE]

\* finalizeSegment(): if (drawing) { ctx.stroke(); drawing = false; }
FinalizeSegment(c, d, at) ==
  IF d
  THEN [ctx |-> Append(c, Ctx("stroke", at)), drawing |-> FALSE]
  ELSE [ctx |-> c, drawing |-> d]

InitDraw ==
  /\ CodecIdle
  /\ MemIdle
  /\ sampleCount \in 0..MaxSamples
  /\ idx = 0
  /\ drawing = FALSE
  /\ ctx = << >>
  /\ outcomes = << >>
  /\ drawPc = "idle"

\* The call up to the loop: the early return, or the two style properties.
DrawFunction1D ==
  /\ drawPc = "idle"
  /\ IF sampleCount < 2
     THEN /\ drawPc' = "returned"
          /\ UNCHANGED ctx
     ELSE /\ ctx' = ctx \o << Ctx("strokeStyle", 0), Ctx("lineWidth", 0) >>
          /\ drawPc' = "loop"
  /\ drawing' = FALSE
  /\ idx' = 0
  /\ UNCHANGED << sampleCount, outcomes, codecVars, memVars >>

\* One iteration of the loop.
Sample ==
  /\ drawPc = "loop"
  /\ idx < sampleCount
  /\ \E yValue \in NumberKinds, canvasX \in NumberKinds, canvasY \in NumberKinds :
       IF ~NumberIsFinite(yValue)
       THEN LET f == FinalizeSegment(ctx, drawing, idx)
            IN  /\ ctx' = f.ctx
                /\ drawing' = f.drawing
                /\ outcomes' = Append(outcomes, "yValue")
       ELSE IF ~NumberIsFinite(canvasX) \/ ~NumberIsFinite(canvasY)
       THEN LET f == FinalizeSegment(ctx, drawing, idx)
            IN  /\ ctx' = f.ctx
                /\ drawing' = f.drawing
                /\ outcomes' = Append(outcomes, "canvas")
       ELSE /\ IF ~drawing
               THEN /\ ctx' = ctx \o << Ctx("beginPath", idx), Ctx("moveTo", idx) >>
                    /\ drawing' = TRUE
               ELSE /\ ctx' = Append(ctx, Ctx("lineTo", idx))
                    /\ UNCHANGED drawing
            /\ outcomes' = Append(outcomes, "finite")
  /\ idx' = idx + 1
  /\ UNCHANGED << sampleCount, drawPc, codecVars, memVars >>

\* The loop is over: the last finalizeSegment() and the return.
Return ==
  /\ drawPc = "loop"
  /\ idx >= sampleCount
  /\ LET f == FinalizeSegment(ctx, drawing, idx)
     IN  /\ ctx' = f.ctx
         /\ drawing' = f.drawing
  /\ drawPc' = "returned"
  /\ UNCHANGED << sampleCount, idx, outcomes, codecVars, memVars >>

NextDraw == DrawFunction1D \/ Sample \/ Return

SpecDraw == InitDraw /\ [][NextDraw]_vars

(***************************************************************************)
(* Properties.  Bounds and extrema are taken in exact arithmetic.           *)
(***************************************************************************)
Range(x) == { x[i] : i \in 1..Len(x) }

\* The minimum and the maximum of a non-empty array, in exact arithmetic.
MinOf(x) == CHOOSE v \in Range(x) : \A w \in Range(x) : DyLe(v, w)
MaxOf(x) == CHOOSE v \in Range(x) : \A w \in Range(x) : DyLe(w, v)

ExtentOf(x) == DySub(MaxOf(x), MinOf(x))

\* The larger of |min(x)| and |max(x)|.
MagnitudeOf(x) ==
  IF DyLe(DyAbs(MinOf(x)), DyAbs(MaxOf(x))) THEN DyAbs(MaxOf(x)) ELSE DyAbs(MinOf(x))

\* |a - b|
Dist(a, b) == DyAbs(DySub(a, b))

\* dequantizeFloats has returned the samples of cycle n of the caller's array.
DecodedCycle(n) ==
  pc = "decoded" /\ bufFrom = "quantize" /\ cycle = n /\ Len(orig) > 0

\* buf is the buffer quantizeFloats returned for data.
Encoded == bufFrom = "quantize" /\ pc \in { "buffer", "decoded" }

\* C1 as stated: after one cycle every sample is within (max(x) - min(x)) / 510
\* of the original, |d[i] - x[i]| * 510 <= max(x) - min(x).
C1_HalfStepBound ==
  DecodedCycle(1) =>
    \A i \in 1..Len(orig) :
      DyLe(DyMul(Num(510, 0), Dist(result.gridData[i], orig[i])), ExtentOf(orig))

\* C1 amended: after one cycle every sample is within
\* (max(x) - min(x)) / 510 + 2^-23 * max(|min(x)|, |max(x)|) of the original:
\* half a quantization step plus the rounding of the stored sample to float32.
C1_HalfStepPlusRounding ==
  DecodedCycle(1) =>
    \A i \in 1..Len(orig) :
      DyLe(DyMul(Num(510, 0), Dist(result.gridData[i], orig[i])),
           DyAdd(ExtentOf(orig), DyMul(Num(510, -23), MagnitudeOf(orig))))

\* A sample on a tie of the rounding has been through one cycle and came back
\* further than half a step from the original.
C1_Witness ==
  /\ DecodedCycle(1)
  /\ orig = << Zero, Num(1, -1), Num(1, 0) >>
  /\ buf[HeaderBytes + 2] = 128
  /\ DyLt(ExtentOf(orig), DyMul(Num(510, 0), Dist(result.gridData[2], orig[2])))
\* C2 as stated: after one cycle every position holding min(x) decodes to
\* exactly min(x) and every position holding max(x) to exactly max(x); with
\* min(x) < max(x) those positions carry the payload bytes 0 and 255.
C2_ExactExtrema ==
  DecodedCycle(1) =>
    \A i \in 1..Len(orig) :
      /\ orig[i] = MinOf(orig) => result.gridData[i] = MinOf(orig)
      /\ orig[i] = MaxOf(orig) => result.gridData[i] = MaxOf(orig)
      /\ DyLt(MinOf(orig), MaxOf(orig)) =>
           /\ orig[i] = MinOf(orig) => buf[HeaderBytes + i] = 0
           /\ orig[i] = MaxOf(orig) => buf[HeaderBytes + i] = 255

\* C3: an array whose elements all equal c is encoded as header min = max = c
\* and payload bytes 0, and decodes to min = c, max = c and samples all c.
AllEqual(x) == Len(x) > 0 /\ \A i \in 1..Len(x) : x[i] = x[1]

C3_Degenerate ==
  (Encoded /\ cycle = 1 /\ AllEqual(orig)) =>
    /\ SubSeq(buf, 1, 4) = Float32Bytes(orig[1])
    /\ SubSeq(buf, 5, 8) = Float32Bytes(orig[1])
    /\ Len(buf) = HeaderBytes + Len(orig)
    /\ \A i \in 1..Len(orig) : buf[HeaderBytes + i] = 0
    /\ pc = "decoded" =>
         /\ result.minVal = orig[1]
         /\ result.maxVal = orig[1]
         /\ Len(result.gridData) = Len(orig)
         /\ \A i \in 1..Len(orig) : result.gridData[i] = orig[1]

\* A constant array of several non-zero elements has been decoded.
C3_Witness ==
  /\ DecodedCycle(1)
  /\ AllEqual(orig)
  /\ Len(orig) >= 2
  /\ orig[1] = Num(3, 0)
  /\ result.gridData[2] = Num(3, 0)

\* C4: quantizeFloats of an empty array throws 'Cannot compress empty array'
\* with no buffer allocated, written or returned; with one sample or more it
\* does not throw that error.
C4_EmptyRejected ==
  /\ (bufFrom # "manual" /\ Len(data) = 0 /\ pc # "samples") =>
       /\ pc = "failed"
       /\ err = EmptyArrayError
       /\ allocated = 0
       /\ buf = << >>
       /\ bufFrom = "none"
  /\ (bufFrom # "manual" /\ Len(data) >= 1) => err # EmptyArrayError
  /\ (bufFrom = "quantize") => allocated >= 1

\* quantizeFloats has been called with the empty array.
C4_Witness ==
  pc = "failed" /\ bufFrom = "none" /\ Len(data) = 0 /\ err = EmptyArrayError

\* C5: dequantizeFloats of a buffer shorter than 8 bytes fails at once with
\* an error, reads no byte outside the buffer and returns no result.
C5_TruncatedRejected ==
  /\ (Len(buf) < HeaderBytes /\ bufFrom = "manual" /\ pc # "buffer") =>
       /\ pc = "failed"
       /\ err = "RangeError"
       /\ result = NoResult
       /\ reads = {}
  /\ reads \subseteq 0..(Len(buf) - 1)

\* dequantizeFloats has been called with a buffer of 1 to 7 bytes.
C5_Witness ==
  /\ pc = "failed"
  /\ bufFrom = "manual"
  /\ Len(buf) \in 1..(HeaderBytes - 1)
  /\ err = "RangeError"
\* C6: the buffer quantizeFloats returns for N >= 1 samples has exactly
\* 8 + N bytes, fewer than the 4 * N bytes of the samples once N >= 3.
C6_SizeLaw ==
  Encoded =>
    /\ Len(buf) = 8 + Len(data)
    /\ Len(GridUint8(buf)) = Len(data)
    /\ Len(data) >= 3 => Len(buf) < 4 * Len(data)

\* A buffer smaller than its three samples has been returned.
C6_Witness ==
  bufFrom = "quantize" /\ pc = "buffer" /\ Len(data) = 3 /\ Len(buf) = 11

\* C7: the header of an encoded buffer holds the exact minimum of the samples
\* in bytes [0,4) and their exact maximum in bytes [4,8), min <= max, and
\* dequantizeFloats returns these two values.
C7_HeaderExtrema ==
  Encoded =>
    /\ GetFloat32(SubSeq(buf, 1, 4)) = MinOf(data)
    /\ GetFloat32(SubSeq(buf, 5, 8)) = MaxOf(data)
    /\ SubSeq(buf, 1, 4) = Float32Bytes(MinOf(data))
    /\ SubSeq(buf, 5, 8) = Float32Bytes(MaxOf(data))
    /\ DyLe(GetFloat32(SubSeq(buf, 1, 4)), GetFloat32(SubSeq(buf, 5, 8)))
    /\ pc = "decoded" =>
         /\ result.minVal = MinOf(data)
         /\ result.maxVal = MaxOf(data)

\* The array [3, -1, 1] has been encoded with header -1.0 (bf800000), then
\* 3.0 (40400000), least significant byte first, and decoded.
C7_Witness ==
  /\ DecodedCycle(1)
  /\ orig = << Num(3, 0), Num(-1, 0), Num(1, 0) >>
  /\ SubSeq(buf, 1, 8) = << 0, 0, 128, 191, 0, 0, 64, 64 >>
  /\ result.minVal = Num(-1, 0)
  /\ result.maxVal = Num(3, 0)

\* C8 as stated: for a buffer of L >= 8 bytes dequantizeFloats returns the
\* header's min and max and L - 8 samples, sample i being min when
\* max - min = 0 and min + (q_i / 255) * (max - min) otherwise; q = 0 gives
\* min and q = 255 gives max.
C8_DecodeReference ==
  (pc = "decoded" /\ Len(buf) >= 8) =>
    LET lo == GetFloat32(SubSeq(buf, 1, 4))
        hi == GetFloat32(SubSeq(buf, 5, 8))
    IN  /\ result.minVal = lo
        /\ result.maxVal = hi
        /\ Len(result.gridData) = Len(buf) - 8
        /\ \A i \in 1..(Len(buf) - 8) :
             /\ NumSub(hi, lo) = Zero => result.gridData[i] = lo
             /\ NumSub(hi, lo) # Zero =>
                  result.gridData[i] =
                    Fround(NumAdd(lo, NumMul(NumDiv(Num(buf[8 + i], 0), Num(255, 0)),
                                             NumSub(hi, lo))))
             /\ buf[8 + i] = 0 => result.gridData[i] = lo
             /\ buf[8 + i] = 255 => result.gridData[i] = hi

\* C9: after two cycles every sample is within 2 * (max(x) - min(x)) / 510 of
\* the original, |d2[i] - x[i]| * 510 <= 2 * (max(x) - min(x)).
C9_TwoCycleBound ==
  DecodedCycle(2) =>
    \A i \in 1..Len(orig) :
      DyLe(DyMul(Num(510, 0), Dist(result.gridData[i], orig[i])),
           DyMul(Num(2, 0), ExtentOf(orig)))

\* The second cycle has decoded an array that the first cycle changed.
C9_Witness ==
  /\ DecodedCycle(2)
  /\ DyLt(MinOf(orig), MaxOf(orig))
  /\ data # orig
  /\ \E i \in 1..Len(orig) : result.gridData[i] # orig[i]

\* C10: with min(x) < max(x), for every i the normalized value
\* t = (x[i] - min) / (max - min) lies in [0, 1] and payload byte i is
\* round(t * 255), a value of 0..255 stored without wrap-around at the
\* position of its sample; it is a nearest level of the exact ratio, up to the
\* rounding of t (2^-40 of a level).
C10_PayloadQuantization ==
  (Encoded /\ DyLt(MinOf(data), MaxOf(data))) =>
    LET lo     == MinOf(data)
        extent == NumSub(MaxOf(data), MinOf(data))
    IN  \A i \in 1..Len(data) :
          LET t == Normalized(data[i], lo, extent)
              q == Quantized(data[i], lo, extent)
          IN  /\ DyLe(Zero, t) /\ DyLe(t, Num(1, 0))
              /\ q \in 0..255
              /\ buf[HeaderBytes + i] = q
              /\ DyLe(DyMul(Num(2, 0),
                            Dist(DyMul(Num(buf[HeaderBytes + i], 0), ExtentOf(data)),
                                 DyMul(Num(255, 0), DySub(data[i], lo)))),
                      DyMul(DyAdd(Num(1, 0), Num(1, -40)), ExtentOf(data)))

\* A sample strictly between the extrema has been quantized to a byte
\* strictly between 0 and 255, its neighbours to 0 and 255.
C10_Witness ==
  /\ bufFrom = "quantize"
  /\ pc = "buffer"
  /\ data = << Num(-1, 0), Num(1, 0), Num(3, 0) >>
  /\ GridUint8(buf) = << 0, 128, 255 >>

\* C12 as stated: with b the buffer quantizeFloats made from a non-empty array,
\* encoding the samples decoded from b gives b again byte for byte (same min,
\* same max, same payload), and decoding that buffer gives the samples of the
\* first cycle again.
C12_ReencodeFixedPoint ==
  DecodedCycle(1) =>
    /\ QuantizeFloats(result.gridData) = buf
    /\ DequantizeFloats(QuantizeFloats(result.gridData)).gridData = result.gridData

\* C11: every call that has returned left its input's bytes as they were, and
\* gave back a block that was not in use before and that no other call gave
\* back; as long as the caller has not written to that block itself it holds
\* what the call computes from the input as it was at the call, whatever the
\* caller has since written to the input and whichever calls ran before,
\* between or after.
C11_PureAndFresh ==
  \A k \in DOMAIN returned :
    LET r == returned[k]
    IN  /\ r.inputAfter = r.inputAt
        /\ r.output > r.inUse
        /\ \A j \in DOMAIN returned : j # k => returned[j].output # r.output
        /\ r.output \notin written =>
             heap[r.output].bytes = ResultBytes(r.fn, r.inputAt)

\* Calls on two different arrays of the caller have returned, one result has
\* been decoded, and the caller has since overwritten an array and the buffer
\* that were passed in, each of which now differs from what the call read.
C11_Witness ==
  \E q \in DOMAIN returned, d \in DOMAIN returned, o \in DOMAIN returned :
    /\ returned[q].fn = "quantizeFloats"
    /\ returned[o].fn = "quantizeFloats"
    /\ returned[o].input # returned[q].input
    /\ returned[d].fn = "dequantizeFloats"
    /\ returned[d].input = returned[q].output
    /\ returned[q].input \in written
    /\ returned[d].input \in written
    /\ heap[returned[q].input].bytes # returned[q].inputAt
    /\ heap[returned[d].input].bytes # returned[d].inputAt
    /\ returned[d].output \notin written

\* A path segment is open after the first n operations on the context: the
\* last beginPath or stroke among them is a beginPath.
SegmentOpen(c, n) ==
  LET ks == { k \in 1..n : c[k].op \in { "beginPath", "stroke" } }
  IN  /\ ks # {}
      /\ c[CHOOSE k \in ks : \A j \in ks : j <= k].op = "beginPath"

\* C13: at every point of a call of drawFunction1D, whatever the samples
\* turn out to be: every beginPath is issued with no segment open and is
\* followed at once by a moveTo; lineTo and stroke are issued only with a
\* segment open, so that each segment gets one stroke; moveTo and lineTo are
\* issued only for samples that are finite with finite canvas coordinates;
\* no segment is open once a non-finite sample has been handled or the
\* function has returned; with sampleCount < 2 nothing is done to the context.
C13_PathProtocol ==
  /\ sampleCount < 2 => ctx = << >>
  /\ \A k \in DOMAIN ctx :
       /\ ctx[k].op = "beginPath" =>
            /\ ~SegmentOpen(ctx, k - 1)
            /\ k < Len(ctx)
            /\ ctx[k + 1].op = "moveTo"
       /\ ctx[k].op = "lineTo" => SegmentOpen(ctx, k - 1)
       /\ ctx[k].op = "stroke" => SegmentOpen(ctx, k - 1)
       /\ ctx[k].op \in { "moveTo", "lineTo" } => outcomes[ctx[k].at + 1] = "finite"
  /\ (idx > 0 /\ outcomes[idx] # "finite") => ~SegmentOpen(ctx, Len(ctx))
  /\ drawPc = "returned" => ~SegmentOpen(ctx, Len(ctx))

\* A call has returned after two finite samples, a non-finite function
\* value, a non-finite canvas coordinate and a last finite sample: two
\* segments, the first with a lineTo, each with its stroke.
C13_Witness ==
  /\ drawPc = "returned"
  /\ outcomes = << "finite", "finite", "yValue", "canvas", "finite" >>
  /\ [k \in DOMAIN ctx |-> ctx[k].op] =
       << "strokeStyle", "lineWidth", "beginPath", "moveTo", "lineTo", "stroke",
          "beginPath", "moveTo", "stroke" >>
====
